---- MODULE Spec2Model ----
(***************************************************************************)
(* Model of src/main.rs of the mastermind code breaker: the Digit/Code     *)
(* codec, the feedback scorer `check`, the estimator `possibilities` and   *)
(* the candidate-elimination loop `break_code`.                            *)
(*                                                                         *)
(* The program works on 6-digit codes over ten digits (1,000,000 codes).   *)
(* The model keeps every algorithm as written and scales the universe:     *)
(* CodeLen stands for the array length 6, SessionDigits are the digits     *)
(* that occur in the codes of a session (candidates, guesses, secret),     *)
(* PairDigits counts the digit values of the code pairs handed to `check`  *)
(* directly, MaxSample is the largest random sample that is enumerated.    *)
(***************************************************************************)
EXTENDS Integers, Sequences, FiniteSets, TLC

(* ---------------------------- bounds ----------------------------------- *)
CodeLen == 3
PairDigits == 4
MaxSample == 2

(* ---------------------------- Digit ------------------------------------ *)
\* A Digit is modelled by its position in the enum declaration, which is
\* what the derived PartialOrd/Ord compares: One < Two < ... < Nine < Zero.
One == 1
Two == 2
Three == 3
Four == 4
Five == 5
Six == 6
Seven == 7
Eight == 8
Nine == 9
Zero == 10

Digit == {One, Two, Three, Four, Five, Six, Seven, Eight, Nine, Zero}

\* Err(()) of TryFrom<u8> for Digit
Err == 0

\* impl From<Digit> for u8
DigitToU8(d) ==
    CASE d = One -> 1
      [] d = Two -> 2
      [] d = Three -> 3
      [] d = Four -> 4
      [] d = Five -> 5
      [] d = Six -> 6
      [] d = Seven -> 7
      [] d = Eight -> 8
      [] d = Nine -> 9
      [] d = Zero -> 0

\* impl TryFrom<u8> for Digit
DigitTryFrom(v) ==
    CASE v = 1 -> One
      [] v = 2 -> Two
      [] v = 3 -> Three
      [] v = 4 -> Four
      [] v = 5 -> Five
      [] v = 6 -> Six
      [] v = 7 -> Seven
      [] v = 8 -> Eight
      [] v = 9 -> Nine
      [] v = 0 -> Zero
      [] OTHER -> Err

(* ---------------------------- Code codec ------------------------------- *)
\* 10_u32.pow(i)
RECURSIVE Pow10(_)
Pow10(i) == IF i = 0 THEN 1 ELSE 10 * Pow10(i - 1)

\* the largest numeral of break_code's range 0..=999999
MaxNumeral == Pow10(CodeLen) - 1

\* pub struct Code([Digit; 6])
Code == [1..CodeLen -> Digit]

\* impl From<Code> for u32: iter().rev().enumerate(), digit * 10^i, summed.
\* Slot k (1-based) is at reversed index CodeLen - k.  The sum is at most
\* 10^CodeLen - 1, far below the width of u32.
RECURSIVE CodeSum(_, _)
CodeSum(c, k) ==
    IF k > CodeLen THEN 0
    ELSE DigitToU8(c[k]) * Pow10(CodeLen - k) + CodeSum(c, k + 1)

CodeToU32(c) == CodeSum(c, 1)

\* CodeFromU32 without the .rev(): slot 1 receives the least significant digit
CodeFromU32NoRev(c) ==
    [k \in 1..CodeLen |-> DigitTryFrom(((c \div Pow10(k - 1)) % 10) % 256)]

\* impl From<u32> for Code: (0..6).rev() yields i = 5,4,..,0 for slots
\* 1..6; each digit is ((c / 10^i) % 10) as u8, converted with try_from
\* and unwrapped.
CodeFromU32(c) ==
    [k \in 1..CodeLen |-> DigitTryFrom(((c \div Pow10(CodeLen - k)) % 10) % 256)]

(* ---------------------------- check ------------------------------------ *)
\* CheckStep with the scan of the code cut at position i (a take(i) on the
\* wrong iterator)
CheckStepCodePrefix(code, guess, i, acc) ==
    LET g == guess[i]
        avail == Cardinality({j \in 1..(i - 1) :
                                 g = code[j] /\ guess[j] # code[j]})
        taken == IF avail > 1 THEN 1 ELSE avail
        earlier == Cardinality({k \in 1..(i - 1) :
                                 guess[k] = g /\ \E j \in 1..CodeLen : g = code[j]})
    IN  IF g = code[i] THEN <<acc[1] + 1, acc[2]>>
        ELSE IF taken - earlier > 0 THEN <<acc[1], acc[2] + 1>>
        ELSE acc

\* CheckStep with the difference compared by >= 0 instead of > 0
CheckStepGe(code, guess, i, acc) ==
    LET g == guess[i]
        avail == Cardinality({j \in 1..CodeLen :
                                 g = code[j] /\ guess[j] # code[j]})
        taken == IF avail > 1 THEN 1 ELSE avail
        earlier == Cardinality({k \in 1..(i - 1) :
                                 guess[k] = g /\ \E j \in 1..CodeLen : g = code[j]})
    IN  IF g = code[i] THEN <<acc[1] + 1, acc[2]>>
        ELSE IF taken - earlier >= 0 THEN <<acc[1], acc[2] + 1>>
        ELSE acc

\* The closure of the fold in check, at guess position i (1-based) with
\* accumulator acc = (good, miss).
CheckStep(code, guess, i, acc) ==
    LET g == guess[i]
        avail == Cardinality({j \in 1..CodeLen :
                                 g = code[j] /\ guess[j] # code[j]})
        taken == IF avail > 1 THEN 1 ELSE avail
        earlier == Cardinality({k \in 1..(i - 1) :
                                 guess[k] = g /\ \E j \in 1..CodeLen : g = code[j]})
    IN  IF g = code[i] THEN <<acc[1] + 1, acc[2]>>
        ELSE IF taken - earlier > 0 THEN <<acc[1], acc[2] + 1>>
        ELSE acc

RECURSIVE CheckFold(_, _, _, _)
CheckFold(code, guess, i, acc) ==
    IF i > CodeLen THEN acc
    ELSE CheckFold(code, guess, i + 1, CheckStep(code, guess, i, acc))

\* check with the fold started one position late
checkSkipFirst(code, guess) == CheckFold(code, guess, 2, <<0, 0>>)

\* pub fn check(code, guess) -> (u8, u8)
check(code, guess) == CheckFold(code, guess, 1, <<0, 0>>)

(* ---------------------------- possibilities ---------------------------- *)
Min2(a, b) == IF a < b THEN a ELSE b

\* possibilities with both ranges written 1..=n instead of 0..=n
possibilitiesFromOne(guess, hist) ==
    UNION { LET g2 == e
                goodMax == Min2(Cardinality({i \in 1..CodeLen : guess[i] = g2[i]}),
                                hist[e][1])
                missMax == Min2(Cardinality({i \in 1..CodeLen :
                                                \E j \in 1..CodeLen : guess[i] = g2[j]}),
                                hist[e][2])
            IN  (1..goodMax) \X (1..missMax)
          : e \in DOMAIN hist }

\* pub fn possibilities(guess, guesses): the (good, miss) pairs produced by
\* the flat_map over the entries (g2, (good, miss)) of the history.  The
\* caller only takes a minimum over them, so the collection is a set.
possibilities(guess, hist) ==
    UNION { LET g2 == e
                goodMax == Min2(Cardinality({i \in 1..CodeLen : guess[i] = g2[i]}),
                                hist[e][1])
                missMax == Min2(Cardinality({i \in 1..CodeLen :
                                                \E j \in 1..CodeLen : guess[i] = g2[j]}),
                                hist[e][2])
            IN  (0..goodMax) \X (0..missMax)
          : e \in DOMAIN hist }

(* ---------------------------- break_code ------------------------------- *)
\* Option<Code>
None == <<>>
Some(c) == <<c>>

\* the digits of the codes of a session
SessionDigits == {Zero, One, Two}

\* the digits whose u8 value is below PairDigits (Zero, One, Two, ...)
PairDigitSet == {d \in Digit : DigitToU8(d) < PairDigits}

\* (0..=999999).map(Code::from).collect(): the initial candidate set,
\* restricted to the codes over the session's digits.
InitialGuesses ==
    {c \in {CodeFromU32(n) : n \in 0..MaxNumeral} :
        \A k \in 1..CodeLen : c[k] \in SessionDigits}

\* the opening numeral 111222: ones in the first half of the slots, twos
\* in the rest
RECURSIVE OpeningFrom(_)
OpeningFrom(k) ==
    IF k > CodeLen THEN 0
    ELSE (IF k <= CodeLen \div 2 THEN 1 ELSE 2) * Pow10(CodeLen - k) + OpeningFrom(k + 1)

OpeningNumeral == OpeningFrom(1)

\* derived Ord of Code: lexicographic over the slots, by Digit order
CodeLess(a, b) ==
    \E k \in 1..CodeLen :
        /\ a[k] < b[k]
        /\ \A j \in 1..(k - 1) : a[j] = b[j]

\* guesses.iter().next() of a BTreeSet: its least element, if any
FirstOf(S) ==
    IF S = {} THEN None
    ELSE Some(CHOOSE c \in S : \A d \in S : d = c \/ CodeLess(c, d))

\* the outcomes of filter(|_| thread_rng().gen_range(0, 500) == 0): every
\* candidate is kept or dropped independently; the samples of at most k
\* codes, each built by adding its codes in increasing order
RECURSIVE Samples(_, _)
Samples(S, k) ==
    IF k = 0 THEN {{}}
    ELSE LET P == Samples(S, k - 1)
         IN  P \cup UNION { {T \cup {x} : x \in {y \in S : \A t \in T : CodeLess(t, y)}}
                           : T \in P }

\* the feedback pairs an interactive oracle may type
Feedback == {p \in (0..CodeLen) \X (0..CodeLen) : p[1] + p[2] <= CodeLen}

\* memo of check over the session's codes
CheckTable == [c \in InitialGuesses, g \in InitialGuesses |-> check(c, g)]

\* the key of max_by_key: guesses.len() - min over the possibilities p of
\* the number of candidates g2 with check(g2, g) != p; NoKey when the
\* minimum is taken over nothing (min() is None and unwrap panics)
NoKey == 0 - 1

\* Iterator::min of a non-empty collection of counts
SetMin(S) == CHOOSE m \in S : \A k \in S : m <= k

KeyOf(g, cands, hist) ==
    LET ps == possibilities(g, hist)
        cnt(p) == Cardinality({g2 \in cands : CheckTable[g2, g] # p})
    IN  IF ps = {} THEN NoKey
        ELSE Cardinality(cands) - SetMin({cnt(p) : p \in ps})

\* the keys of all candidates; they depend on the candidate set and the
\* history only, so they are computed when these change and looked up by
\* max_by_key
KeysOf(cands, hist) == [g \in cands |-> KeyOf(g, cands, hist)]

\* max_by_key over the sample: the sampled codes with the greatest key
ArgMax(sample, key) ==
    {g \in sample : \A h \in sample : key[h] <= key[g]}

\* loop test written guesses.len() != 1
LoopCondNotOne(cands) == Cardinality(cands) # 1

\* loop test written guesses.len() > 0
LoopCondNonEmpty(cands) == Cardinality(cands) > 0

\* while guesses.len() > 1
LoopCond(cands) == Cardinality(cands) > 1

VARIABLES
    guesses,    \* break_code: the candidate set (BTreeSet<Code>)
    prev,       \* break_code: the history (BTreeMap<Code, (u8, u8)>)
    guess,      \* break_code: the guess of the current round
    resp,       \* break_code: the oracle's response of the current round
    pc,         \* break_code: position in the loop
    result,     \* break_code: the returned Option<Code>, wrapped in Some once returned
    secret,     \* the oracle's secret: Some(code) for the test closure, None for main's
    calls,      \* number of invocations of the oracle closure
    rounds,     \* number of completed filterings
    keys,       \* memo of the max_by_key keys of the candidates: KeysOf(guesses, prev)
    chkCode,    \* check tests: first argument
    chkGuess,   \* check tests: second argument
    chkOut,     \* check tests: check(chkCode, chkGuess)
    chkRev,     \* check tests: check(chkGuess, chkCode)
    chkPc,      \* check tests: position
    num,        \* codec test: the numeral
    cod,        \* codec test: the code
    back,       \* codec test: the numeral converted back from the code
    cod2,       \* codec test: the code converted back from the numeral
    codPc,      \* codec test: position
    selCands,   \* guess selection: the candidate set (guesses)
    selPrev,    \* guess selection: the history (prev)
    selKeys,    \* guess selection: KeysOf(selCands, selPrev)
    selSample,  \* guess selection: Some(the sampled candidates)
    selGuess,   \* guess selection: Some(the selected guess)
    selPc,      \* guess selection: position
    parCands,   \* parallel filter: the set handed to into_par_iter
    parGuess,   \* parallel filter: the guess of the round
    parResp,    \* parallel filter: the response of the round
    parTodo,    \* parallel filter: items no worker has taken yet
    parBuf,     \* parallel filter: per worker, the items it kept
    parOut,     \* parallel filter: the collected set
    parPc       \* parallel filter: position

sessionVars == <<guesses, prev, guess, resp, pc, result, secret, calls, rounds, keys>>
checkVars == <<chkCode, chkGuess, chkOut, chkRev, chkPc>>
codecVars == <<num, cod, back, cod2, codPc>>
selectVars == <<selCands, selPrev, selKeys, selSample, selGuess, selPc>>
filterVars == <<parCands, parGuess, parResp, parTodo, parBuf, parOut, parPc>>
vars == <<sessionVars, checkVars, codecVars, selectVars, filterVars>>

EmptyMap == [g \in {} |-> <<0, 0>>]

SessionIdle ==
    /\ guesses = {}
    /\ prev = EmptyMap
    /\ guess = None
    /\ resp = <<0, 0>>
    /\ pc = "idle"
    /\ result = None
    /\ secret = None
    /\ calls = 0
    /\ rounds = 0
    /\ keys = EmptyMap

CheckIdle ==
    /\ chkCode = None
    /\ chkGuess = None
    /\ chkOut = <<0, 0>>
    /\ chkRev = <<0, 0>>
    /\ chkPc = "idle"

CodecIdle ==
    /\ num = 0
    /\ cod = None
    /\ back = 0
    /\ cod2 = None
    /\ codPc = "idle"

SelectIdle ==
    /\ selCands = {}
    /\ selPrev = EmptyMap
    /\ selKeys = EmptyMap
    /\ selSample = None
    /\ selGuess = None
    /\ selPc = "idle"

FilterIdle ==
    /\ parCands = {}
    /\ parGuess = None
    /\ parResp = <<0, 0>>
    /\ parTodo = {}
    /\ parBuf = <<>>
    /\ parOut = {}
    /\ parPc = "idle"

\* break_code entered, with the test module's closure over a secret code
\* or with main's closure that relays typed answers
Init ==
    /\ guesses = InitialGuesses
    /\ prev = EmptyMap
    /\ guess = None
    /\ resp = <<0, 0>>
    /\ pc = "loop"
    /\ result = None
    /\ secret \in {Some(s) : s \in InitialGuesses} \cup {None}
    /\ calls = 0
    /\ rounds = 0
    /\ keys = KeysOf(InitialGuesses, EmptyMap)
    /\ CheckIdle
    /\ CodecIdle
    /\ SelectIdle
    /\ FilterIdle

\* PickFrom whose fallback is the first of all codes, not of the candidates
PickFromAll(smp, cands, key) ==
    IF smp = {} THEN {FirstOf(InitialGuesses)}
    ELSE IF \E g \in smp : key[g] = NoKey THEN {None}
    ELSE {Some(g) : g \in ArgMax(smp, key)}

\* the guess expression of one iteration after the first, for one outcome
\* smp of the sampling: max_by_key over the sample, or the first candidate
\* when the sample is empty; key holds the keys of the candidates
PickFrom(smp, cands, key) ==
    IF smp = {} THEN {FirstOf(cands)}
    ELSE IF \E g \in smp : key[g] = NoKey THEN {None}
    ELSE {Some(g) : g \in ArgMax(smp, key)}

\* GuessChoices without the opening rule: every round samples
GuessChoicesNoOpening(cands, hist, key) ==
    UNION { PickFrom(smp, cands, key) : smp \in Samples(cands, MaxSample) }

\* GuessChoices that takes the opening code on every round
GuessChoicesOpening(cands, hist, key) == {Some(CodeFromU32(OpeningNumeral))}

\* the guess expression of one iteration: the opening code on the first
\* round, afterwards the pick from any sample
GuessChoices(cands, hist, key) ==
    IF DOMAIN hist = {} THEN {Some(CodeFromU32(OpeningNumeral))}
    ELSE UNION { PickFrom(smp, cands, key) : smp \in Samples(cands, MaxSample) }

\* loop test true, guess selected (None: an unwrap on the way panicked)
ChooseGuess ==
    /\ pc = "loop"
    /\ LoopCond(guesses)
    /\ \E choice \in GuessChoices(guesses, prev, keys) :
          IF choice = None
          THEN /\ pc' = "panic"
               /\ guess' = guess
          ELSE /\ pc' = "call"
               /\ guess' = choice[1]
    /\ UNCHANGED <<guesses, prev, resp, result, secret, calls, rounds, keys>>
    /\ UNCHANGED <<checkVars, codecVars, selectVars, filterVars>>

\* let resp = good(guess), the closure of test::break_code
OracleTest ==
    /\ pc = "call"
    /\ secret # None
    /\ resp' = check(secret[1], guess)
    /\ calls' = calls + 1
    /\ pc' = "filter"
    /\ UNCHANGED <<guesses, prev, guess, result, secret, rounds, keys>>
    /\ UNCHANGED <<checkVars, codecVars, selectVars, filterVars>>

\* let resp = good(guess), the closure of main: whatever is typed
OracleMain ==
    /\ pc = "call"
    /\ secret = None
    /\ \E r \in Feedback : resp' = r
    /\ calls' = calls + 1
    /\ pc' = "filter"
    /\ UNCHANGED <<guesses, prev, guess, result, secret, rounds, keys>>
    /\ UNCHANGED <<checkVars, codecVars, selectVars, filterVars>>

\* Filter with the arguments of check swapped
FilterSwapped ==
    /\ pc = "filter"
    /\ prev' = [g \in DOMAIN prev \cup {guess} |-> IF g = guess THEN resp ELSE prev[g]]
    /\ guesses' = {g \in guesses : CheckTable[guess, g] = resp}
    /\ keys' = KeysOf(guesses', prev')
    /\ rounds' = rounds + 1
    /\ pc' = "loop"
    /\ UNCHANGED <<guess, resp, result, secret, calls>>
    /\ UNCHANGED <<checkVars, codecVars, selectVars, filterVars>>

\* Filter applied to the full set of codes instead of the current candidates
FilterFromAll ==
    /\ pc = "filter"
    /\ prev' = [g \in DOMAIN prev \cup {guess} |-> IF g = guess THEN resp ELSE prev[g]]
    /\ guesses' = {g \in InitialGuesses : CheckTable[g, guess] = resp}
    /\ keys' = KeysOf(guesses', prev')
    /\ rounds' = rounds + 1
    /\ pc' = "loop"
    /\ UNCHANGED <<guess, resp, result, secret, calls>>
    /\ UNCHANGED <<checkVars, codecVars, selectVars, filterVars>>

\* Filter that never drops the guess itself
FilterKeepGuess ==
    /\ pc = "filter"
    /\ prev' = [g \in DOMAIN prev \cup {guess} |-> IF g = guess THEN resp ELSE prev[g]]
    /\ guesses' = {g \in guesses : CheckTable[g, guess] = resp \/ g = guess}
    /\ keys' = KeysOf(guesses', prev')
    /\ rounds' = rounds + 1
    /\ pc' = "loop"
    /\ UNCHANGED <<guess, resp, result, secret, calls>>
    /\ UNCHANGED <<checkVars, codecVars, selectVars, filterVars>>

\* prev.insert(guess, resp); guesses = guesses filtered by check(g, guess) == resp
Filter ==
    /\ pc = "filter"
    /\ prev' = [g \in DOMAIN prev \cup {guess} |-> IF g = guess THEN resp ELSE prev[g]]
    /\ guesses' = {g \in guesses : CheckTable[g, guess] = resp}
    /\ keys' = KeysOf(guesses', prev')
    /\ rounds' = rounds + 1
    /\ pc' = "loop"
    /\ UNCHANGED <<guess, resp, result, secret, calls>>
    /\ UNCHANGED <<checkVars, codecVars, selectVars, filterVars>>

\* loop test false: guesses.iter().next().map(|&x| x)
Return ==
    /\ pc = "loop"
    /\ ~LoopCond(guesses)
    /\ result' = FirstOf(guesses)
    /\ pc' = "done"
    /\ UNCHANGED <<guesses, prev, guess, resp, secret, calls, rounds, keys>>
    /\ UNCHANGED <<checkVars, codecVars, selectVars, filterVars>>

Next == ChooseGuess \/ OracleTest \/ OracleMain \/ Filter \/ Return

Spec == Init /\ [][Next]_vars

\* break_code runs on one thread that never stops on its own, and both
\* closures return: every enabled step is eventually taken
FairSpec == Spec /\ WF_vars(Next)

(* ---------------------------- check, called directly ------------------- *)
\* the codes handed to check by the tests: all codes over PairDigitSet
PairCodes == [1..CodeLen -> PairDigitSet]

InitCheck ==
    /\ SessionIdle
    /\ CodecIdle
    /\ SelectIdle
    /\ FilterIdle
    /\ chkCode \in PairCodes
    /\ chkGuess \in PairCodes
    /\ chkOut = <<0, 0>>
    /\ chkRev = <<0, 0>>
    /\ chkPc = "args"

\* check(code, guess)
CheckCall ==
    /\ chkPc = "args"
    /\ chkOut' = check(chkCode, chkGuess)
    /\ chkPc' = "scored"
    /\ UNCHANGED <<chkCode, chkGuess, chkRev>>
    /\ UNCHANGED <<sessionVars, codecVars, selectVars, filterVars>>

\* check(guess, code): the other orientation
CheckSwapped ==
    /\ chkPc = "scored"
    /\ chkRev' = check(chkGuess, chkCode)
    /\ chkPc' = "both"
    /\ UNCHANGED <<chkCode, chkGuess, chkOut>>
    /\ UNCHANGED <<sessionVars, codecVars, selectVars, filterVars>>

NextCheck == CheckCall \/ CheckSwapped

SpecCheck == InitCheck /\ [][NextCheck]_vars

(* ---------------------------- codec, called directly ------------------- *)
\* numerals handed to Code::from: the valid range and as many above it
NumeralInputs == 0..(2 * Pow10(CodeLen) - 1)

InitCodec ==
    /\ SessionIdle
    /\ CheckIdle
    /\ SelectIdle
    /\ FilterIdle
    /\ back = 0
    /\ cod2 = None
    /\ \/ /\ num \in NumeralInputs
          /\ cod = None
          /\ codPc = "num"
       \/ /\ num = 0
          /\ cod \in Code
          /\ codPc = "code"

\* Code::from(num)
Decode ==
    /\ codPc = "num"
    /\ cod' = CodeFromU32(num)
    /\ codPc' = "num_code"
    /\ UNCHANGED <<num, back, cod2>>
    /\ UNCHANGED <<sessionVars, checkVars, selectVars, filterVars>>

\* u32::from(Code::from(num))
EncodeBack ==
    /\ codPc = "num_code"
    /\ back' = CodeToU32(cod)
    /\ codPc' = "num_code_num"
    /\ UNCHANGED <<num, cod, cod2>>
    /\ UNCHANGED <<sessionVars, checkVars, selectVars, filterVars>>

\* u32::from(cod)
Encode ==
    /\ codPc = "code"
    /\ num' = CodeToU32(cod)
    /\ codPc' = "code_num"
    /\ UNCHANGED <<cod, back, cod2>>
    /\ UNCHANGED <<sessionVars, checkVars, selectVars, filterVars>>

\* Code::from(u32::from(cod))
DecodeBack ==
    /\ codPc = "code_num"
    /\ cod2' = CodeFromU32(num)
    /\ codPc' = "code_num_code"
    /\ UNCHANGED <<num, cod, back>>
    /\ UNCHANGED <<sessionVars, checkVars, selectVars, filterVars>>

NextCodec == Decode \/ EncodeBack \/ Encode \/ DecodeBack

SpecCodec == InitCodec /\ [][NextCodec]_vars

(* ---------------------------- guess selection, sample exposed ---------- *)
\* the rounds of break_code after the first, with the sample of each round
\* kept in the state; the oracle is any closure (every response)
Insert(hist, g, r) == [h \in DOMAIN hist \cup {g} |-> IF h = g THEN r ELSE hist[h]]

\* the state of break_code after its first round: the opening code was
\* answered with any response that leaves the loop running
InitSelect ==
    /\ SessionIdle
    /\ CheckIdle
    /\ CodecIdle
    /\ FilterIdle
    /\ \E r \in Feedback :
          /\ selPrev = Insert(EmptyMap, CodeFromU32(OpeningNumeral), r)
          /\ selCands = {g \in InitialGuesses : CheckTable[g, CodeFromU32(OpeningNumeral)] = r}
    /\ LoopCond(selCands)
    /\ selKeys = KeysOf(selCands, selPrev)
    /\ selSample = None
    /\ selGuess = None
    /\ selPc = "sample"

\* guesses.par_iter().filter(|_| thread_rng().gen_range(0, 500) == 0)
DrawSample ==
    /\ selPc = "sample"
    /\ \E smp \in Samples(selCands, MaxSample) : selSample' = Some(smp)
    /\ selPc' = "select"
    /\ UNCHANGED <<selCands, selPrev, selKeys, selGuess>>
    /\ UNCHANGED <<sessionVars, checkVars, codecVars, filterVars>>

\* .max_by_key(..).unwrap_or_else(|| guesses.iter().next().unwrap())
Select ==
    /\ selPc = "select"
    /\ \E choice \in PickFrom(selSample[1], selCands, selKeys) :
          /\ selGuess' = choice
          /\ selPc' = IF choice = None THEN "panic" ELSE "call"
    /\ UNCHANGED <<selCands, selPrev, selKeys, selSample>>
    /\ UNCHANGED <<sessionVars, checkVars, codecVars, filterVars>>

\* good(guess), prev.insert and the filtering, then the loop test
Observe ==
    /\ selPc = "call"
    /\ \E r \in Feedback :
          /\ selPrev' = Insert(selPrev, selGuess[1], r)
          /\ selCands' = {g \in selCands : CheckTable[g, selGuess[1]] = r}
    /\ selKeys' = KeysOf(selCands', selPrev')
    /\ selSample' = None
    /\ selPc' = IF LoopCond(selCands') THEN "sample" ELSE "done"
    /\ UNCHANGED selGuess
    /\ UNCHANGED <<sessionVars, checkVars, codecVars, filterVars>>

NextSelect == DrawSample \/ Select \/ Observe

SpecSelect == InitSelect /\ [][NextSelect]_vars

(* ---------------------------- the parallel filtering ------------------- *)
\* guesses.into_par_iter().filter(|g| check(*g, guess) == resp).collect():
\* the items are split among the workers of the pool in any way, each
\* worker keeps what passes the closure, collect joins what was kept
NumWorkers == 2
MaxPool == 4

Workers == 1..NumWorkers

\* the closure |g| check(*g, guess) == resp
FilterKeeps(g, gs, r) == CheckTable[g, gs] = r

RECURSIVE JoinUpTo(_, _)
JoinUpTo(buf, w) == IF w = 0 THEN {} ELSE JoinUpTo(buf, w - 1) \cup buf[w]

\* Collect that keeps the part of the last worker only
CollectLast(buf) == buf[NumWorkers]

\* collect() into a BTreeSet: the join of every worker's part
Collect(buf) == JoinUpTo(buf, NumWorkers)

\* the candidate sets break_code can hold at its third round: the opening
\* code and then any candidate were answered with any responses
AfterOpening(r) == {g \in InitialGuesses : CheckTable[g, CodeFromU32(OpeningNumeral)] = r}

ThirdRoundSets ==
    { {g \in AfterOpening(r1) : CheckTable[g, g2] = r2} :
        <<r1, g2, r2>> \in { t \in Feedback \X InitialGuesses \X Feedback :
                              t[2] \in AfterOpening(t[1]) } }

\* a third-round filtering of at most MaxPool candidates: one of them is
\* guessed and answered with any response
InitFilter ==
    /\ SessionIdle
    /\ CheckIdle
    /\ CodecIdle
    /\ SelectIdle
    /\ parCands \in ThirdRoundSets
    /\ LoopCond(parCands)
    /\ Cardinality(parCands) <= MaxPool
    /\ parGuess \in {Some(g) : g \in parCands}
    /\ parResp \in Feedback
    /\ parTodo = parCands
    /\ parBuf = [w \in Workers |-> {}]
    /\ parOut = {}
    /\ parPc = "run"

\* worker w takes one item and applies the closure
WorkerStep(w) ==
    /\ parPc = "run"
    /\ \E g \in parTodo :
          /\ parTodo' = parTodo \ {g}
          /\ parBuf' = [parBuf EXCEPT ![w] =
                          IF FilterKeeps(g, parGuess[1], parResp) THEN @ \cup {g} ELSE @]
    /\ UNCHANGED <<parCands, parGuess, parResp, parOut, parPc>>
    /\ UNCHANGED <<sessionVars, checkVars, codecVars, selectVars>>

\* every item was taken: collect()
CollectStep ==
    /\ parPc = "run"
    /\ parTodo = {}
    /\ parOut' = Collect(parBuf)
    /\ parPc' = "collected"
    /\ UNCHANGED <<parCands, parGuess, parResp, parTodo, parBuf>>
    /\ UNCHANGED <<sessionVars, checkVars, codecVars, selectVars>>

NextFilter == (\E w \in Workers : WorkerStep(w)) \/ CollectStep

SpecFilter == InitFilter /\ [][NextFilter]_vars

(* ---------------------------- properties ------------------------------- *)
RECURSIVE Pow(_, _)
Pow(b, e) == IF e = 0 THEN 1 ELSE b * Pow(b, e - 1)

\* C1: with the truthful oracle of a secret s, break_code does not panic and
\* what it returns is exactly Some(s), never None and never another code.
C1_ReturnsSecret ==
    secret # None => /\ pc # "panic"
                     /\ pc = "done" => result = secret

C1_Witness ==
    /\ secret # None
    /\ pc = "done"
    /\ result = secret
    /\ rounds >= 2

\* C2: with the truthful oracle of any secret and any sampling outcome, the
\* loop eventually reaches a candidate set of size 1 and break_code returns.
C2_Terminates ==
    (secret # None) ~> (pc = "done" /\ Cardinality(guesses) = 1)

C2_Witness ==
    /\ secret # None
    /\ pc = "done"
    /\ Cardinality(guesses) = 1
    /\ calls >= 3

\* the Bulls-and-Cows feedback of a guess against a secret
RECURSIVE Occurrences(_, _, _)
Occurrences(c, d, k) ==
    IF k > CodeLen THEN 0
    ELSE (IF c[k] = d THEN 1 ELSE 0) + Occurrences(c, d, k + 1)

RECURSIVE SharedDigits(_, _, _)
SharedDigits(a, b, d) ==
    IF d > Zero THEN 0
    ELSE Min2(Occurrences(a, d, 1), Occurrences(b, d, 1)) + SharedDigits(a, b, d + 1)

Bulls(a, b) == Cardinality({i \in 1..CodeLen : a[i] = b[i]})
BullsAndCows(a, b) == <<Bulls(a, b), SharedDigits(a, b, One) - Bulls(a, b)>>

\* C3: check(secret, guess) is the exact Bulls-and-Cows feedback for every
\* pair of codes: good is the number of agreeing positions, miss is the sum
\* over the digits of the smaller occurrence count, minus good.
C3_ExactFeedback ==
    chkPc # "args" => chkOut = BullsAndCows(chkCode, chkGuess)

\* C4: for every numeral n of the valid range u32::from(Code::from(n)) = n,
\* the first slot holds the most significant digit, and Code::from maps the
\* range onto all codes (every code is the image of its own numeral).
C4_RoundTrip ==
    /\ (codPc \in {"num_code", "num_code_num"} /\ num <= MaxNumeral)
          => /\ DigitToU8(cod[1]) = num \div Pow10(CodeLen - 1)
             /\ DigitToU8(cod[CodeLen]) = num % 10
    /\ (codPc = "num_code_num" /\ num <= MaxNumeral) => back = num
    /\ codPc \in {"code_num", "code_num_code"} => num \in 0..MaxNumeral
    /\ codPc = "code_num_code" => cod2 = cod

C4_Witness ==
    /\ codPc = "num_code_num"
    /\ num > 0
    /\ num < Pow10(CodeLen - 1)
    /\ cod[1] = Zero
    /\ back = num

\* C5: while every response is check(secret, guess) for one secret, the
\* candidate set contains that secret, initially and after every filtering.
C5_SecretStaysCandidate ==
    secret # None => secret[1] \in guesses

C5_Witness ==
    /\ secret # None
    /\ rounds >= 2
    /\ pc = "loop"
    /\ Cardinality(guesses) > 1
    /\ secret[1] \in guesses

\* C6: once filtering has emptied the candidate set, break_code makes no
\* further oracle call, its only step is to return None, and no unwrap
\* panics at any point.
C6_EmptySetReturnsNone ==
    /\ [](pc # "panic")
    /\ [](guesses = {} => (pc \in {"loop", "done"} /\ (pc = "done" => result = None)))
    /\ [][guesses = {} => (calls' = calls /\ pc' = "done" /\ result' = None)]_vars

C6_Witness ==
    /\ guesses = {}
    /\ pc = "done"
    /\ result = None
    /\ calls >= 2

\* C7: the candidate set starts as the set of all codes and every step
\* leaves it a subset of what it was, so its size never increases.
C7_NeverGrows ==
    /\ guesses = InitialGuesses
    /\ Cardinality(guesses) = Pow(Cardinality(SessionDigits), CodeLen)
    /\ [][/\ guesses' \subseteq guesses
          /\ Cardinality(guesses') <= Cardinality(guesses)]_vars

C7_Witness ==
    /\ rounds >= 2
    /\ guesses # {}
    /\ guesses # InitialGuesses
    /\ guesses \subseteq InitialGuesses

\* C8: check(c, c) = (6, 0) for every code c, with or without repeats.
C8_SelfScore ==
    (chkPc # "args" /\ chkCode = chkGuess) => chkOut = <<CodeLen, 0>>

NoRepeat(c) == \A i, j \in 1..CodeLen : c[i] = c[j] => i = j

C8_Witness ==
    /\ chkPc = "scored"
    /\ chkCode = chkGuess
    /\ ~NoRepeat(chkCode)
    /\ chkOut = <<CodeLen, 0>>

\* C9: for two codes neither of which repeats a digit, check(a, b) equals
\* check(b, a).
C9_SymmetricWithoutRepeats ==
    (chkPc = "both" /\ NoRepeat(chkCode) /\ NoRepeat(chkGuess)) => chkOut = chkRev

C9_Witness ==
    /\ chkPc = "both"
    /\ NoRepeat(chkCode)
    /\ NoRepeat(chkGuess)
    /\ chkCode # chkGuess
    /\ chkOut[2] > 0
    /\ chkOut = chkRev

\* C10: the oracle is invoked once per round, alternating with filtering:
\* a guess is chosen only when every earlier response has been filtered and
\* only from the current candidate set, each oracle call is followed by one
\* complete filtering before the next one, and no oracle call is made while
\* the candidate set has one element or none.
C10_OracleProtocol ==
    /\ [](/\ calls - rounds \in {0, 1}
          /\ (calls = rounds + 1) <=> (pc = "filter")
          /\ pc = "call" => (Cardinality(guesses) > 1 /\ guess \in guesses))
    /\ [][/\ (pc' = "call" /\ pc # "call")
               => (calls = rounds /\ guess' \in guesses /\ Cardinality(guesses) > 1)
          /\ calls' # calls
               => /\ calls' = calls + 1
                  /\ calls = rounds
                  /\ pc = "call"
                  /\ pc' = "filter"
                  /\ Cardinality(guesses) > 1
                  /\ UNCHANGED <<guesses, guess>>
          /\ rounds' # rounds
               => /\ rounds' = rounds + 1
                  /\ calls' = calls
                  /\ pc = "filter"
                  /\ pc' = "loop"
                  /\ guesses' = {g \in guesses : check(g, guess) = resp}]_vars

C10_Witness ==
    /\ calls = 3
    /\ rounds = 2
    /\ pc = "filter"
    /\ Cardinality(guesses) > 1

\* C11: the first guess of every session is the fixed opening code (111222
\* at length six: ones in the first half, twos in the rest), whatever the
\* secret, the oracle and the sampling are; the opening rule is used in the
\* first round only, because the history is empty exactly while no oracle
\* call has been made.
C11_OpeningGuess ==
    /\ [](pc \in {"loop", "call"} => ((DOMAIN prev = {}) <=> (calls = 0)))
    /\ [][(pc = "loop" /\ pc' = "call" /\ calls = 0)
             => \A k \in 1..CodeLen :
                   guess'[k] = IF k <= CodeLen \div 2 THEN One ELSE Two]_vars
    /\ [][(pc = "loop" /\ pc' = "call" /\ calls > 0)
             => (DOMAIN prev # {} /\ guess' \in guesses)]_vars
    /\ [][(calls = 0 /\ calls' = 1) => guess = CodeFromU32(OpeningNumeral)]_vars

C11_Witness ==
    /\ pc = "call"
    /\ calls = 1
    /\ secret # None
    /\ CodeFromU32(OpeningNumeral) \in DOMAIN prev
    /\ guess # CodeFromU32(OpeningNumeral)

\* C12: for every numeral above the largest code numeral (999999 at length
\* six), Code::from reports a conversion failure: it produces no code, in
\* particular not the code of the numeral reduced modulo 10^CodeLen.
C12_OutOfRangeFails ==
    (codPc \in {"num_code", "num_code_num"} /\ num > MaxNumeral)
        => (cod \notin Code /\ cod # CodeFromU32(num % Pow10(CodeLen)))

\* C13: check never returns more than CodeLen matches in total (good + miss
\* <= 6 at length six), and the total equals CodeLen only if every digit of
\* the guess occurs at some position of the secret.
C13_ScoreBound ==
    /\ chkPc # "args"
         => /\ chkOut[1] + chkOut[2] <= CodeLen
            /\ chkOut[1] + chkOut[2] = CodeLen
                 => \A i \in 1..CodeLen : \E j \in 1..CodeLen : chkGuess[i] = chkCode[j]
    /\ chkPc = "both"
         => /\ chkRev[1] + chkRev[2] <= CodeLen
            /\ chkRev[1] + chkRev[2] = CodeLen
                 => \A i \in 1..CodeLen : \E j \in 1..CodeLen : chkCode[i] = chkGuess[j]

C13_Witness ==
    /\ chkPc = "scored"
    /\ chkOut[1] + chkOut[2] = CodeLen
    /\ chkOut[2] > 0

\* the worst case of guessing g: the size of the largest bucket of
\* candidates over the estimated responses
SetMax(S) == CHOOSE m \in S : \A n \in S : n <= m

WorstCase(g, cands, hist) ==
    SetMax({Cardinality({c \in cands : check(c, g) = p}) : p \in possibilities(g, hist)})

\* C14: on a round after the first whose sample is not empty, the guess is
\* a sampled candidate whose worst case (largest bucket over the estimated
\* responses) is minimal among the sampled candidates.
C14_Minimax ==
    (selPc = "call" /\ selSample # None /\ selSample[1] # {})
        => /\ selGuess[1] \in selSample[1]
           /\ \A h \in selSample[1] :
                 WorstCase(selGuess[1], selCands, selPrev) <= WorstCase(h, selCands, selPrev)

\* the smallest numeral among the codes of S
SetMinNumeral(S) == CHOOSE m \in {CodeToU32(c) : c \in S} : \A c \in S : m <= CodeToU32(c)

\* C15: when the sample is empty the guess is the remaining candidate with
\* the smallest numeral: the ordering of codes that the candidate set is
\* kept in agrees with the order of the numerals.
C15_FallbackSmallestNumeral ==
    (selPc = "call" /\ selSample = Some({}))
        => /\ selGuess[1] \in selCands
           /\ CodeToU32(selGuess[1]) = SetMinNumeral(selCands)

\* C16: the filtering is exact and does not depend on how the work is
\* divided: the collected set is exactly the candidates c of the old set
\* with check(c, guess) = resp (candidate first, guess second), whichever
\* worker took which candidate and in whatever order they finished.
C16_FilterExact ==
    /\ parPc = "collected"
         => parOut = {c \in parCands : check(c, parGuess[1]) = parResp}
    /\ parPc = "run"
         => /\ \A w \in Workers : parBuf[w] \subseteq parCands \ parTodo
            /\ \A v, w \in Workers : v # w => parBuf[v] \cap parBuf[w] = {}

C16_Witness ==
    /\ parPc = "collected"
    /\ parBuf[1] # {}
    /\ parBuf[2] # {}
    /\ parOut # parCands
    /\ parResp # check(parGuess[1], parGuess[1])

\* C17: with the truthful oracle of a secret s, on every round after the
\* first and for every candidate g, the pair check(s, g) that g would
\* really be answered with is one of the estimated pairs
\* possibilities(g, prev).
C17_EstimatorSound ==
    (secret # None /\ pc = "loop" /\ DOMAIN prev # {} /\ LoopCond(guesses))
        => \A g \in guesses : check(secret[1], g) \in possibilities(g, prev)

\* C18: every guess handed to the oracle belongs to the candidate set at
\* the moment it is issued: the opening code belongs to the full set, and
\* every later guess is taken from the current candidates.
C18_GuessIsCandidate ==
    /\ [](pc = "loop" /\ calls = 0 => CodeFromU32(OpeningNumeral) \in guesses)
    /\ [](pc = "call" => guess \in guesses)
    /\ [][calls' # calls => (guess \in guesses /\ guess' = guess /\ guesses' = guesses)]_vars

C18_Witness ==
    /\ pc = "filter"
    /\ calls = 2
    /\ guess \in guesses
    /\ Some(guess) # FirstOf(guesses)

\* C19: whatever the oracle answers, every round removes at least one
\* candidate: after the all-good response (6,0) the set is exactly the
\* guess, after any other response the guess itself is gone; so the number
\* of oracle calls never exceeds the number of codes less one (999,999 at
\* length six) and break_code returns.
C19_StrictProgress ==
    /\ [][rounds' # rounds
            => /\ Cardinality(guesses') < Cardinality(guesses)
               /\ resp = <<CodeLen, 0>> => guesses' = {guess}
               /\ resp # <<CodeLen, 0>> => guess \notin guesses']_vars
    /\ [](calls <= Cardinality(InitialGuesses) - 1)
    /\ [](pc = "loop" => calls + Cardinality(guesses) <= Cardinality(InitialGuesses))
    /\ <>(pc = "done")

C19_Witness ==
    /\ secret = None
    /\ pc = "loop"
    /\ calls = 2
    /\ resp = <<CodeLen, 0>>
    /\ guesses = {guess}

\* C20: the history only grows: each round adds exactly one entry, for a
\* guess that was not in it, and changes or removes no earlier entry; no
\* other step touches it, and its size is the number of oracle calls
\* recorded so far.
C20_HistoryAppendOnly ==
    /\ [][rounds' # rounds
            => /\ guess \notin DOMAIN prev
               /\ DOMAIN prev' = DOMAIN prev \cup {guess}
               /\ prev'[guess] = resp
               /\ \A g \in DOMAIN prev : prev'[g] = prev[g]]_vars
    /\ [][rounds' = rounds => prev' = prev]_vars
    /\ [](Cardinality(DOMAIN prev) = rounds)
    /\ [](pc # "filter" => Cardinality(DOMAIN prev) = calls)

C20_Witness ==
    /\ pc = "loop"
    /\ calls = 3
    /\ Cardinality(DOMAIN prev) = 3
    /\ LoopCond(guesses)

====
